---- MODULE Spec2Model ----
(***************************************************************************)
(* A model of sawmill.py: lazy generator stages over sequences of lines,   *)
(* paths and records.  One pipeline runs at a time (the library is single- *)
(* threaded and pull-based).  A generator function called by the caller    *)
(* only creates a generator object; its body runs when the consumer pulls. *)
(* Strings the code inspects are sequences of one-character strings.       *)
(***************************************************************************)
EXTENDS Integers, Sequences, FiniteSets, TLC

VARIABLES
    py,         \* major version of the interpreter running the module (2 or 3)
    active,     \* the stage function the caller invoked ("idle" before any call)
    out,        \* what the consumer has received from the stage so far
    err,        \* the exception that propagated to the consumer ("None" if none)
    pulls,      \* number of next() requests the consumer has made
    cat_fn,     \* "cat" or "gzcat": the adapter whose body is running
    cat_src,    \* cat: the items of `source`, in iteration order
    cat_i,      \* cat: index of the current `item` (0 before the first)
    cat_k,      \* cat: number of lines already read from the current item
    cat_pc,     \* cat: position of the generator body
    handles,    \* file handles opened by cat/gzcat that are still open
    opened,     \* every argument handed to open()/GzipFile(), in call order
    cc_src,     \* clever_cat: the paths of `source`
    cc_i,       \* clever_cat: index of the current `path`
    col_args,   \* columns: sep, column_names, splitter_type; unparse: fed to uncolumns
    col_src,    \* columns: the lines of `source`
    col_i,      \* columns: number of lines consumed from `source`
    col_pc,     \* columns: position of the generator body
    fq_args,    \* top_frequency / print_frequency: limit ({} is None), ascending
    fq_src,     \* count / frequency: the items of `source`
    fq_i,       \* frequency: number of items consumed from `source`
    counts,     \* frequency: the dict being built
    keyorder,   \* frequency: the keys of `counts` in insertion order
    result,     \* count: the returned number
    sortlist,   \* top_frequency: the sorted, truncated list of (key, count) pairs
    fq_pc,      \* position in frequency and in the generator built on it
    once_src,   \* once: the items of `source`
    once_cbs,   \* once: the callbacks, in argument order
    once_i,     \* once: number of items whose callback loop is over
    once_j,     \* once: number of callbacks invoked on the current item
    once_pc,    \* once: position of the generator body
    calls,      \* every callback invocation <<position, callback, item>>, in call order
    flt_args,   \* grep / find: pattern, category, invert
    flt_src,    \* grep / find: the items of `source`
    flt_i,      \* grep / find: number of items consumed
    flt_pc      \* grep / find: position of the generator body

catVars == <<cat_fn, cat_src, cat_i, cat_k, cat_pc, handles, opened, cc_src, cc_i>>

colVars == <<col_args, col_src, col_i, col_pc>>

fqVars == <<fq_args, fq_src, fq_i, counts, keyorder, result, sortlist, fq_pc>>

onceVars == <<once_src, once_cbs, once_i, once_j, once_pc, calls>>

fltVars == <<flt_args, flt_src, flt_i, flt_pc>>

vars == <<py, active, out, err, pulls, catVars, colVars, fqVars, onceVars, fltVars>>

\* ------------------------------------------------------------------ bounds

\* Longest `source` sequence the caller passes to a stage.
MaxSrc == 2

\* Longest line handed to columns.
MaxLine == 3

\* Longest `source` handed to columns.
MaxColSrc == 1

\* Longest `source` handed to count, frequency and the stages built on them.
MaxFreqSrc == 4

\* Largest `limit` handed to top_frequency and print_frequency.
MaxLimit == 2

\* Most callbacks handed to once.
MaxCallbacks == 2

\* ----------------------------------------------------------------- helpers

SeqsUpTo(S, n) == UNION {[1..k -> S] : k \in 0..n}

Range(s) == {s[j] : j \in 1..Len(s)}

RECURSIVE Flatten(_)
Flatten(ss) == IF ss = <<>> THEN <<>> ELSE Head(ss) \o Flatten(Tail(ss))

\* str.endswith(suffix)
endswith(s, suffix) ==
    /\ Len(suffix) <= Len(s)
    /\ SubSeq(s, Len(s) - Len(suffix) + 1, Len(s)) = suffix

\* A parenthesised expression `(x)`: Python builds a tuple only with a comma.
Paren(x) == x

\* Iterating a str yields its one-character strings; iterating a list, its items.
StrOrigin(name) == [kind |-> "str", name |-> name, attrs |-> {}, lines |-> <<>>]

Iterate(source) ==
    IF source.type = "str"
    THEN [j \in 1..Len(source.value) |-> StrOrigin(<<source.value[j]>>)]
    ELSE source.value

\* ------------------------------------------------------------- environment

\* The files that exist, by path; a gzip file holds `lines` compressed.
FS ==
    (<<"a">> :> [gz |-> FALSE, lines |-> <<"l1", "l2">>]) @@
    (<<"a", "b">> :> [gz |-> FALSE, lines |-> <<"l3">>]) @@
    (<<"a", ".", "g", "z">> :> [gz |-> TRUE, lines |-> <<"l4">>])

\* Open stream objects (read and write attributes), and one read-only object.
Streams ==
    { [kind |-> "stream", name |-> <<>>, attrs |-> {"read", "write"}, lines |-> <<"s1", "s2">>],
      [kind |-> "stream", name |-> <<>>, attrs |-> {"read", "write"}, lines |-> <<"s3">>],
      [kind |-> "stream", name |-> <<>>, attrs |-> {"read"}, lines |-> <<"s4">>] }

PathNames == DOMAIN FS \cup {<<"b">>, <<"b", ".", "g", "z">>}

Origins == Streams \cup {StrOrigin(p) : p \in PathNames}

\* What iterating an opened file yields: "ok" lines, or an error on the first read.
ReadOpened(fn, name) ==
    IF fn = "gzcat"
    THEN IF FS[name].gz THEN [ok |-> TRUE, lines |-> FS[name].lines]
                        ELSE [ok |-> FALSE, lines |-> <<>>]
    ELSE IF FS[name].gz THEN [ok |-> TRUE, lines |-> <<"gzbytes">>]
                        ELSE [ok |-> TRUE, lines |-> FS[name].lines]

\* ------------------------------------------------------------------ utility

is_filelike(item) == {"read", "write"} \subseteq item.attrs

\* A plain open() without the with statement: nothing closes the file.
WithExit_leak(hs, h) == hs

\* Leaving a `with open(...) as fileobj:` block closes fileobj, however it is left.
WithExit(hs, h) == hs \ {h}

\* --------------------------------------------------------------------- Init

Init ==
    /\ py \in {2, 3}
    /\ active = "idle"
    /\ out = <<>>
    /\ err = "None"
    /\ pulls = 0
    /\ cat_fn = "cat"
    /\ cat_src = <<>>
    /\ cat_i = 0
    /\ cat_k = 0
    /\ cat_pc = "none"
    /\ handles = {}
    /\ opened = <<>>
    /\ cc_src = <<>>
    /\ cc_i = 0
    /\ col_args = [sep |-> <<>>, column_names |-> <<>>, splitter_type |-> "split", unparse |-> FALSE]
    /\ col_src = <<>>
    /\ col_i = 0
    /\ col_pc = "none"
    /\ fq_args = [limit |-> {}, ascending |-> FALSE]
    /\ fq_src = <<>>
    /\ fq_i = 0
    /\ counts = <<>>
    /\ keyorder = <<>>
    /\ result = 0
    /\ sortlist = <<>>
    /\ fq_pc = "none"
    /\ once_src = <<>>
    /\ once_cbs = <<>>
    /\ once_i = 0
    /\ once_j = 0
    /\ once_pc = "none"
    /\ calls = <<>>
    /\ flt_args = [pattern |-> <<>>, category |-> "None", invert |-> FALSE]
    /\ flt_src = <<>>
    /\ flt_i = 0
    /\ flt_pc = "none"

\* ------------------------------------------------------------- cat / gzcat

Suspended == {"created", "y_stream", "y_file"}

CatActive == active \in {"cat", "gzcat", "clever_cat"}

\* The caller calls cat(source) or gzcat(source): a generator object is created.
CallCat ==
    /\ active = "idle"
    /\ \E fn \in {"cat", "gzcat"}, src \in SeqsUpTo(Origins, MaxSrc) :
           /\ active' = fn
           /\ cat_fn' = fn
           /\ cat_src' = Iterate([type |-> "list", value |-> src])
           /\ cat_pc' = "created"
           /\ UNCHANGED <<py, out, err, pulls, cat_i, cat_k, handles, opened, cc_src, cc_i, colVars, fqVars, onceVars, fltVars>>

\* The consumer asks for the next line: the body resumes where it was suspended.
CatPull ==
    /\ CatActive
    /\ cat_pc \in Suspended
    /\ pulls' = pulls + 1
    /\ cat_pc' = CASE cat_pc = "created" -> IF active = "clever_cat" THEN "cc_for" ELSE "for"
                   [] cat_pc = "y_stream" -> "stream"
                   [] cat_pc = "y_file" -> "file"
    /\ UNCHANGED <<py, active, out, err, cat_fn, cat_src, cat_i, cat_k, handles, opened, cc_src, cc_i, colVars, fqVars, onceVars, fltVars>>

\* `for item in source:` then `if is_filelike(item):`
CatFor ==
    /\ CatActive
    /\ cat_pc = "for"
    /\ IF cat_i < Len(cat_src)
       THEN /\ cat_i' = cat_i + 1
            /\ cat_k' = 0
            /\ cat_pc' = IF is_filelike(cat_src[cat_i + 1]) THEN "stream" ELSE "open"
       ELSE /\ cat_pc' = IF active = "clever_cat" THEN "cc_for" ELSE "done"
            /\ UNCHANGED <<cat_i, cat_k>>
    /\ UNCHANGED <<py, active, out, err, pulls, cat_fn, cat_src, handles, opened, cc_src, cc_i, colVars, fqVars, onceVars, fltVars>>

\* `for line in item: yield line`; when the stream is exhausted control falls
\* through to the `with open(item, 'r')` statement that follows the `if`.
CatStream ==
    /\ CatActive
    /\ cat_pc = "stream"
    /\ LET item == cat_src[cat_i] IN
       IF cat_k < Len(item.lines)
       THEN /\ out' = Append(out, item.lines[cat_k + 1])
            /\ cat_k' = cat_k + 1
            /\ cat_pc' = "y_stream"
       ELSE /\ cat_pc' = "open"
            /\ cat_k' = 0
            /\ UNCHANGED out
    /\ UNCHANGED <<py, active, err, pulls, cat_fn, cat_src, cat_i, handles, opened, cc_src, cc_i, colVars, fqVars, onceVars, fltVars>>

\* `with open(item, 'r') as fileobj:` (gzip.GzipFile(item, 'r') in gzcat).
\* An item that is not a str is a TypeError; a missing path an IOError.
CatOpen ==
    /\ CatActive
    /\ cat_pc = "open"
    /\ LET item == cat_src[cat_i] IN
       /\ opened' = Append(opened, item)
       /\ IF item.kind # "str"
          THEN /\ err' = "TypeError"
               /\ cat_pc' = "failed"
               /\ UNCHANGED handles
          ELSE IF item.name \notin DOMAIN FS
          THEN /\ err' = "IOError"
               /\ cat_pc' = "failed"
               /\ UNCHANGED handles
          ELSE /\ handles' = handles \cup {Len(opened) + 1}
               /\ cat_pc' = "file"
               /\ UNCHANGED err
    /\ UNCHANGED <<py, active, out, pulls, cat_fn, cat_src, cat_i, cat_k, cc_src, cc_i, colVars, fqVars, onceVars, fltVars>>

\* `for line in fileobj: yield line`; the with block is left when the file is
\* exhausted or when reading raises.
CatFile ==
    /\ CatActive
    /\ cat_pc = "file"
    /\ LET rd == ReadOpened(cat_fn, cat_src[cat_i].name) IN
       IF ~rd.ok
       THEN /\ err' = "IOError"
            /\ cat_pc' = "failed"
            /\ handles' = WithExit(handles, Len(opened))
            /\ UNCHANGED <<out, cat_k>>
       ELSE IF cat_k < Len(rd.lines)
       THEN /\ out' = Append(out, rd.lines[cat_k + 1])
            /\ cat_k' = cat_k + 1
            /\ cat_pc' = "y_file"
            /\ UNCHANGED <<err, handles>>
       ELSE /\ handles' = WithExit(handles, Len(opened))
            /\ cat_pc' = "for"
            /\ UNCHANGED <<out, err, cat_k>>
    /\ UNCHANGED <<py, active, pulls, cat_fn, cat_src, cat_i, opened, cc_src, cc_i, colVars, fqVars, onceVars, fltVars>>

\* A read of the open file fails (I/O error): the exception leaves the with block.
CatReadError ==
    /\ CatActive
    /\ cat_pc = "file"
    /\ err' = "IOError"
    /\ cat_pc' = "failed"
    /\ handles' = WithExit(handles, Len(opened))
    /\ UNCHANGED <<py, active, out, pulls, cat_fn, cat_src, cat_i, cat_k, opened, cc_src, cc_i, colVars, fqVars, onceVars, fltVars>>

\* The consumer abandons the sequence: the generator is closed (close(), run
\* when the abandoned generator object is released), GeneratorExit is raised
\* at the suspended yield and leaves the with block if the yield is inside one.
CatClose ==
    /\ CatActive
    /\ cat_pc \in Suspended
    /\ cat_pc' = "closed"
    /\ handles' = IF cat_pc = "y_file" THEN WithExit(handles, Len(opened)) ELSE handles
    /\ UNCHANGED <<py, active, out, err, pulls, cat_fn, cat_src, cat_i, cat_k, opened, cc_src, cc_i, colVars, fqVars, onceVars, fltVars>>

\* --------------------------------------------------------------- clever_cat

\* The caller calls clever_cat(source) with a sequence of paths.
CallCleverCat ==
    /\ active = "idle"
    /\ \E paths \in SeqsUpTo(PathNames, MaxSrc) :
           /\ active' = "clever_cat"
           /\ cc_src' = paths
           /\ cat_pc' = "created"
           /\ UNCHANGED <<py, out, err, pulls, cat_fn, cat_src, cat_i, cat_k, handles, opened, cc_i, colVars, fqVars, onceVars, fltVars>>

\* `for path in source:` picks gzcat for a '.gz' name and cat otherwise, then
\* `for line in cat_generator((path)):` starts that adapter on the argument
\* `(path)`; the adapter's lines are re-yielded, its exhaustion ends the inner
\* loop and its exceptions propagate.
CleverCatFor ==
    /\ active = "clever_cat"
    /\ cat_pc = "cc_for"
    /\ IF cc_i < Len(cc_src)
       THEN LET path == cc_src[cc_i + 1] IN
            /\ cc_i' = cc_i + 1
            /\ cat_fn' = IF endswith(path, <<".", "g", "z">>) THEN "gzcat" ELSE "cat"
            /\ cat_src' = Iterate(Paren([type |-> "str", value |-> path]))
            /\ cat_i' = 0
            /\ cat_k' = 0
            /\ cat_pc' = "for"
       ELSE /\ cat_pc' = "done"
            /\ UNCHANGED <<cc_i, cat_fn, cat_src, cat_i, cat_k>>
    /\ UNCHANGED <<py, active, out, err, pulls, handles, opened, cc_src, colVars, fqVars, onceVars, fltVars>>

\* ------------------------------------------------------ columns / uncolumns

Chars == {"a", " "}

Lines == SeqsUpTo(Chars, MaxLine)

\* First index at or after `from` where `sep` occurs in `x` (0 if none).
FindFrom(x, sep, from) ==
    LET hits == {j \in from..(Len(x) - Len(sep) + 1) : SubSeq(x, j, j + Len(sep) - 1) = sep}
    IN  IF hits = {} THEN 0 ELSE CHOOSE j \in hits : \A h \in hits : j <= h

\* str.split(sep, maxsplit) for a non-empty sep: at most `maxsplit` splits, made
\* at the leftmost occurrences, so at most maxsplit + 1 segments.
RECURSIVE split(_, _, _)
split(x, sep, maxsplit) ==
    LET j == FindFrom(x, sep, 1) IN
    IF maxsplit = 0 \/ j = 0
    THEN <<x>>
    ELSE <<SubSeq(x, 1, j - 1)>> \o split(SubSeq(x, j + Len(sep), Len(x)), sep, maxsplit - 1)

\* shlex.split on text without quotes or escapes: the whitespace-separated words.
RECURSIVE shlex_split(_)
shlex_split(x) ==
    IF x = <<>> THEN <<>>
    ELSE IF Head(x) = " " THEN shlex_split(Tail(x))
    ELSE LET j == FindFrom(x, <<" ">>, 1)
         IN  IF j = 0 THEN <<x>>
             ELSE <<SubSeq(x, 1, j - 1)>> \o shlex_split(SubSeq(x, j, Len(x)))

\* sep.join(segments)
RECURSIVE join(_, _)
join(sep, segs) ==
    IF segs = <<>> THEN <<>>
    ELSE IF Len(segs) = 1 THEN segs[1]
    ELSE segs[1] \o sep \o join(sep, Tail(segs))

\* The number handed to str.split as maxsplit: `maxsplit=num_columns`.
MaxSplitArg(num_columns) == num_columns

\* splitter(item): `x.split(sep, maxsplit=num_columns)` or `shlex.split(x)`.
\* Python 2's str.split takes no keyword arguments; an empty sep is a ValueError.
splitter(args, x) ==
    IF args.splitter_type = "split"
    THEN IF py = 2 THEN [err |-> "TypeError", values |-> <<>>]
         ELSE IF args.sep = <<>> THEN [err |-> "ValueError", values |-> <<>>]
         ELSE [err |-> "None",
               values |-> split(x, args.sep, MaxSplitArg(Len(args.column_names)))]
    ELSE [err |-> "None", values |-> shlex_split(x)]

\* output_dict after the `for i in range(num_columns)` loop: names that are not
\* None map to the value at their position (a repeated name keeps the last).
output_dict(column_names, column_values) ==
    LET named == {i \in 1..Len(column_names) : column_names[i] # "None"} IN
    [name \in {column_names[i] : i \in named} |->
        column_values[CHOOSE i \in named :
            /\ column_names[i] = name
            /\ \A h \in named : column_names[h] = name => h <= i]]

\* uncolumns on one item: `sep.join(item[name] for name in column_names)`.
uncolumns(item, sep, column_names) ==
    IF \E i \in 1..Len(column_names) : column_names[i] \notin DOMAIN item
    THEN [err |-> "KeyError", line |-> <<>>]
    ELSE [err |-> "None",
          line |-> join(sep, [i \in 1..Len(column_names) |-> item[column_names[i]]])]

Templates ==
    { <<"Left">>, <<"Left", "Right">>, <<"Left", "None", "Right">>, <<"None", "Right">> }

\* The caller calls columns(source, sep, column_names, splitter_type), alone
\* or as the input of uncolumns(..., sep, column_names): generator objects are
\* created and no statement of either body runs.
CallColumns ==
    /\ active = "idle"
    /\ \E src \in SeqsUpTo(Lines, MaxColSrc), sep \in {<<" ">>, <<"a">>, <<>>},
          names \in Templates, st \in {"split", "shlex", "csv"}, un \in BOOLEAN :
           /\ active' = IF un THEN "uncolumns" ELSE "columns"
           /\ col_args' = [sep |-> sep, column_names |-> names, splitter_type |-> st, unparse |-> un]
           /\ col_src' = src
           /\ col_pc' = "created"
           /\ UNCHANGED <<py, out, err, pulls, col_i, catVars, fqVars, onceVars, fltVars>>

\* The consumer pulls one element.  On the first pull the body starts: an
\* unrecognized splitter_type raises ValueError.  Then one line is consumed,
\* split, and its record (or, under uncolumns, the joined line) is yielded;
\* a line with fewer segments than names is an IndexError.
ColumnsPull ==
    /\ active \in {"columns", "uncolumns"}
    /\ col_pc \in {"created", "yield"}
    /\ pulls' = pulls + 1
    /\ IF col_pc = "created" /\ col_args.splitter_type \notin {"split", "shlex"}
       THEN /\ err' = "ValueError"
            /\ col_pc' = "failed"
            /\ UNCHANGED <<out, col_i>>
       ELSE IF col_i = Len(col_src)
       THEN /\ col_pc' = "done"
            /\ UNCHANGED <<out, err, col_i>>
       ELSE LET item == col_src[col_i + 1]
                sp == splitter(col_args, item)
                num_columns == Len(col_args.column_names)
            IN  /\ col_i' = col_i + 1
                /\ IF sp.err # "None"
                   THEN /\ err' = sp.err
                        /\ col_pc' = "failed"
                        /\ UNCHANGED out
                   ELSE IF Len(sp.values) < num_columns
                   THEN /\ err' = "IndexError"
                        /\ col_pc' = "failed"
                        /\ UNCHANGED out
                   ELSE LET rec == output_dict(col_args.column_names, sp.values)
                            un == uncolumns(rec, col_args.sep, col_args.column_names)
                        IN  IF ~col_args.unparse
                            THEN /\ out' = Append(out, rec)
                                 /\ col_pc' = "yield"
                                 /\ UNCHANGED err
                            ELSE IF un.err # "None"
                            THEN /\ err' = un.err
                                 /\ col_pc' = "failed"
                                 /\ UNCHANGED out
                            ELSE /\ out' = Append(out, un.line)
                                 /\ col_pc' = "yield"
                                 /\ UNCHANGED err
    /\ UNCHANGED <<py, active, col_args, col_src, catVars, fqVars, onceVars, fltVars>>

\* ------------------------------------------------------------------- sinks

Items == {"a", "b", "c"}

\* Names bound at module level, and the builtins the module's bodies use.
ModuleGlobals ==
    { "re", "gzip", "shlex", "subprocess", "os", "__all__", "NGINX_COLUMNS",
      "cat", "gzcat", "system", "system_stdout", "listdir", "listdirs",
      "once", "grep", "find", "dig", "columns", "uncolumns", "files", "dirs",
      "write", "count", "frequency", "top_frequency", "print_frequency",
      "clever_cat", "http_log", "apache2", "nginx", "highest_pageviews",
      "is_filelike", "forever" }

Builtins ==
    { "open", "isinstance", "list", "bool", "hasattr", "getattr", "len", "range",
      "str", "repr", "max", "sorted", "ValueError", "None", "True" }
    \cup (IF py = 2 THEN {"basestring"} ELSE {})

\* Whether evaluating `name` inside a body with the given local names finds it.
Resolves(name, locals) == name \in locals \cup ModuleGlobals \cup Builtins

\* count(source): `result += 1` for each item.
RECURSIVE count(_)
count(source) == IF source = <<>> THEN 0 ELSE 1 + count(Tail(source))

\* tally with the increment lost for a key already present.
tally_no_increment(cnt, item) ==
    [k \in DOMAIN cnt \cup {item} |-> IF k = item THEN 1 ELSE cnt[k]]

\* One iteration of frequency's loop:
\* `if not item in counts: counts[item] = 0` then `counts[item] += 1`.
tally(cnt, item) ==
    IF item \notin DOMAIN cnt
    THEN [k \in DOMAIN cnt \cup {item} |-> IF k = item THEN 1 ELSE cnt[k]]
    ELSE [cnt EXCEPT ![item] = @ + 1]

\* freq.iteritems(): the (key, count) pairs in the dict's iteration order.
iteritems(cnt, order) == [j \in 1..Len(order) |-> <<order[j], cnt[order[j]]>>]

\* sorted(pairs, key=lambda x: x[1], reverse=True): descending by count, pairs
\* of equal count kept in their original order.
RECURSIVE sorted_reverse(_)
sorted_reverse(pairs) ==
    IF pairs = <<>> THEN <<>>
    ELSE LET top == CHOOSE j \in 1..Len(pairs) :
                      /\ \A h \in 1..Len(pairs) : pairs[h][2] <= pairs[j][2]
                      /\ \A h \in 1..(j - 1) : pairs[h][2] < pairs[j][2]
         IN  <<pairs[top]>> \o
             sorted_reverse(SubSeq(pairs, 1, top - 1) \o SubSeq(pairs, top + 1, Len(pairs)))

\* `sortlist[:limit]` when limit is not None.
truncate(list, limit) ==
    IF limit = {} THEN list
    ELSE LET n == CHOOSE n \in limit : TRUE
         IN  SubSeq(list, 1, IF n < Len(list) THEN n ELSE Len(list))

\* len(str(n)) for n >= 0
RECURSIVE digits(_)
digits(n) == IF n < 10 THEN 1 ELSE 1 + digits(n \div 10)

\* bool(obj): a generator object has no __len__ and is always true.
Truthy(obj) == IF obj.type = "generator" THEN TRUE ELSE obj.items # <<>>

\* obj[0] is defined for a list and a TypeError for a generator object.
Subscriptable(obj) == obj.type = "list"

Limits == {{}} \cup {{n} : n \in 0..MaxLimit}

\* The caller calls count(source): the function drains source and returns.
CallCount ==
    /\ active = "idle"
    /\ \E src \in SeqsUpTo(Items, MaxFreqSrc) :
           /\ active' = "count"
           /\ fq_src' = src
           /\ result' = count(src)
           /\ fq_pc' = "returned"
           /\ UNCHANGED <<py, out, err, pulls, fq_args, fq_i, counts, keyorder, sortlist,
                          catVars, colVars, onceVars, fltVars>>

\* The caller calls frequency(source), alone or as the argument of
\* top_frequency (as highest_pageviews does): frequency starts draining.
\* print_frequency(source, limit) is a generator function: the call only
\* creates the generator object.
CallFrequency ==
    /\ active = "idle"
    /\ \E fn \in {"frequency", "top_frequency", "print_frequency"},
          src \in SeqsUpTo(Items, MaxFreqSrc), lim \in Limits, asc \in BOOLEAN :
           /\ fn = "frequency" => (lim = {} /\ ~asc)
           /\ fn = "print_frequency" => ~asc
           /\ active' = fn
           /\ fq_src' = src
           /\ fq_args' = [limit |-> lim, ascending |-> asc]
           /\ fq_pc' = IF fn = "print_frequency" THEN "created" ELSE "tally"
           /\ UNCHANGED <<py, out, err, pulls, fq_i, counts, keyorder, result, sortlist,
                          catVars, colVars, onceVars, fltVars>>

\* frequency's `for item in source:` loop, one item per step; at exhaustion
\* `return counts`.  Returning into top_frequency(...) creates that generator
\* object; returning into print_frequency continues its body.
FrequencyStep ==
    /\ active \in {"frequency", "top_frequency", "print_frequency"}
    /\ fq_pc = "tally"
    /\ IF fq_i < Len(fq_src)
       THEN LET item == fq_src[fq_i + 1] IN
            /\ counts' = tally(counts, item)
            /\ keyorder' = IF item \in DOMAIN counts THEN keyorder ELSE Append(keyorder, item)
            /\ fq_i' = fq_i + 1
            /\ UNCHANGED fq_pc
       ELSE /\ fq_pc' = CASE active = "frequency" -> "returned"
                         [] active = "top_frequency" -> "created"
                         [] active = "print_frequency" -> "report"
            /\ UNCHANGED <<counts, keyorder, fq_i>>
    /\ UNCHANGED <<py, active, out, err, pulls, fq_args, fq_src, result, sortlist,
                   catVars, colVars, onceVars, fltVars>>

\* The consumer pulls from top_frequency(freq_dict, limit, ascending).  The
\* first pull runs `sortlist = sorted(freq.iteritems(), ..., reverse=True)`,
\* where `freq` is looked up among the body's names, then truncates; each
\* pull yields the next pair of sortlist.
TopFrequencyPull ==
    /\ active = "top_frequency"
    /\ fq_pc \in {"created", "yield"}
    /\ pulls' = pulls + 1
    /\ IF fq_pc = "created" /\ ~Resolves("freq", {"freq_dict", "limit", "ascending", "sortlist", "item"})
       THEN /\ err' = "NameError"
            /\ fq_pc' = "failed"
            /\ UNCHANGED <<out, sortlist>>
       ELSE LET list == IF fq_pc = "created"
                        THEN truncate(sorted_reverse(iteritems(counts, keyorder)), fq_args.limit)
                        ELSE sortlist
            IN  /\ sortlist' = list
                /\ IF Len(out) < Len(list)
                   THEN /\ out' = Append(out, list[Len(out) + 1])
                        /\ fq_pc' = "yield"
                   ELSE /\ fq_pc' = "done"
                        /\ UNCHANGED out
                /\ UNCHANGED err
    /\ UNCHANGED <<py, active, fq_args, fq_src, fq_i, counts, keyorder, result,
                   catVars, colVars, onceVars, fltVars>>

\* The consumer pulls from print_frequency for the first time: the body
\* starts with `freq = frequency(source)`.
PrintFrequencyPull ==
    /\ active = "print_frequency"
    /\ fq_pc = "created"
    /\ pulls' = pulls + 1
    /\ fq_pc' = "tally"
    /\ UNCHANGED <<py, active, out, err, fq_args, fq_src, fq_i, counts, keyorder, result,
                   sortlist, catVars, colVars, onceVars, fltVars>>

\* The header line: "count" + " " * (count_width - 4) + "value"
header(count_width) ==
    <<"c", "o", "u", "n", "t">> \o [j \in 1..(count_width - 4) |-> " "]
        \o <<"v", "a", "l", "u", "e">>

\* The rule: "=" * (count_width + 6)
rule(count_width) == [j \in 1..(count_width + 6) |-> "="]

\* print_frequency after frequency returned: `sortlist = top_frequency(freq,
\* limit)` is a generator object; `if sortlist:` tests its truth and
\* `sortlist[0][1]` subscripts it; then the header is yielded.
PrintFrequencyReport ==
    /\ active = "print_frequency"
    /\ fq_pc = "report"
    /\ LET sl == [type |-> "generator", items |-> <<>>] IN
       IF Truthy(sl) /\ ~Subscriptable(sl)
       THEN /\ err' = "TypeError"
            /\ fq_pc' = "failed"
            /\ UNCHANGED out
       ELSE LET count_width ==
                    IF Truthy(sl)
                    THEN (IF 5 > digits(sl.items[1][2]) THEN 5 ELSE digits(sl.items[1][2]))
                    ELSE 5
            IN  /\ out' = Append(out, header(count_width))
                /\ fq_pc' = "y_header"
                /\ UNCHANGED err
    /\ UNCHANGED <<py, active, pulls, fq_args, fq_src, fq_i, counts, keyorder, result,
                   sortlist, catVars, colVars, onceVars, fltVars>>

\* -------------------------------------------------------------------- once

OnceItems == {"x", "y"}

\* The callbacks the caller may pass, by name, and what each returns.
Callbacks == {"never", "same", "only_x", "only_y", "empty"}

apply(callback, item) ==
    CASE callback = "never" -> "None"
      [] callback = "same" -> item
      [] callback = "only_x" -> IF item = "x" THEN "X" ELSE "None"
      [] callback = "only_y" -> IF item = "y" THEN "Y" ELSE "None"
      [] callback = "empty" -> ""

\* after_yield without the `break`: the callback loop goes on with the same item.
after_yield_no_break(i, j) == [i |-> i, j |-> j + 1]

\* Where the loops stand after `yield result` and `break`: at the next item.
after_yield(i, j) == [i |-> i + 1, j |-> 0]

\* The caller calls once(source, *callbacks).
CallOnce ==
    /\ active = "idle"
    /\ \E src \in SeqsUpTo(OnceItems, MaxSrc), cbs \in SeqsUpTo(Callbacks, MaxCallbacks) :
           /\ active' = "once"
           /\ once_src' = src
           /\ once_cbs' = cbs
           /\ once_pc' = "created"
           /\ UNCHANGED <<py, out, err, pulls, once_i, once_j, calls,
                          catVars, colVars, fqVars, fltVars>>

\* The consumer asks for the next result.
OncePull ==
    /\ active = "once"
    /\ once_pc \in {"created", "yield"}
    /\ pulls' = pulls + 1
    /\ once_pc' = "loop"
    /\ UNCHANGED <<py, active, out, err, once_src, once_cbs, once_i, once_j, calls,
                   catVars, colVars, fqVars, fltVars>>

\* One step of the loops: `for item in source:` ends the generator at
\* exhaustion; `for callback in callbacks:` calls the next callback on the
\* item, and `if result != None: yield result; break`; when the callbacks are
\* exhausted the outer loop goes to the next item.
OnceStep ==
    /\ active = "once"
    /\ once_pc = "loop"
    /\ IF once_i = Len(once_src)
       THEN /\ once_pc' = "done"
            /\ UNCHANGED <<out, once_i, once_j, calls>>
       ELSE IF once_j = Len(once_cbs)
       THEN /\ once_i' = once_i + 1
            /\ once_j' = 0
            /\ UNCHANGED <<out, once_pc, calls>>
       ELSE LET item == once_src[once_i + 1]
                callback == once_cbs[once_j + 1]
                res == apply(callback, item)
            IN  /\ calls' = Append(calls, <<once_j + 1, callback, item>>)
                /\ IF res # "None"
                   THEN /\ out' = Append(out, res)
                        /\ once_i' = after_yield(once_i, once_j).i
                        /\ once_j' = after_yield(once_i, once_j).j
                        /\ once_pc' = "yield"
                   ELSE /\ once_j' = once_j + 1
                        /\ UNCHANGED <<out, once_i, once_pc>>
    /\ UNCHANGED <<py, active, err, pulls, once_src, once_cbs,
                   catVars, colVars, fqVars, fltVars>>

\* ------------------------------------------------------------- grep / find

FilterStrings == {<<>>, <<"a">>, <<"b">>, <<"a", "b">>, <<"b", "a">>}

\* Items are strings, or dicts with the one key "f" when a category is given.
FilterItems(category) ==
    IF category = "None" THEN FilterStrings ELSE {[f |-> x] : x \in FilterStrings}

GrepPatterns ==
    { <<>>, <<"a">>, <<"a", "b">>, <<".", "b">>, <<"a", "*", "b">>, <<"b", "*">>, <<"*">> }

FindPatterns == { <<>>, <<"a">>, <<"a", "b">>, <<"b", "b">> }

\* re.compile on patterns of literals, '.' and postfix '*': the atoms, or an
\* error when a '*' has nothing to repeat.
RECURSIVE compile(_)
compile(p) ==
    IF p = <<>> THEN [ok |-> TRUE, atoms |-> <<>>]
    ELSE IF Head(p) = "*" THEN [ok |-> FALSE, atoms |-> <<>>]
    ELSE LET star == Len(p) >= 2 /\ p[2] = "*"
             rest == compile(SubSeq(p, IF star THEN 3 ELSE 2, Len(p)))
         IN  [ok |-> rest.ok,
              atoms |-> <<[c |-> Head(p), star |-> star]>> \o rest.atoms]

\* Whether atoms k.. match a substring of x that starts at position pos.
RECURSIVE MatchAt(_, _, _, _)
MatchAt(atoms, k, x, pos) ==
    IF k > Len(atoms) THEN TRUE
    ELSE LET here == pos <= Len(x) /\ (atoms[k].c = "." \/ atoms[k].c = x[pos]) IN
         IF atoms[k].star
         THEN MatchAt(atoms, k + 1, x, pos) \/ (here /\ MatchAt(atoms, k, x, pos + 1))
         ELSE here /\ MatchAt(atoms, k + 1, x, pos + 1)

\* bool(pattern.search(x)): a match starting anywhere in x.
search(atoms, x) == \E pos \in 1..(Len(x) + 1) : MatchAt(atoms, 1, x, pos)

\* `pattern in x` for strings
contains(x, pattern) == FindFrom(x, pattern, 1) # 0

\* The value tested: the item, or item[category].
tested(item, category) == IF category = "None" THEN item ELSE item[category]

\* `or` written for `^`
xor_as_or(a, b) == a \/ b

\* `a ^ b` on truth values
xor(a, b) == a # b

\* The test of grep's and find's `if`: bool(match) ^ invert.
passes(fn, args, item) ==
    xor(IF fn = "grep" THEN search(compile(args.pattern).atoms, tested(item, args.category))
                       ELSE contains(tested(item, args.category), args.pattern),
        args.invert)

\* The caller calls grep(source, pattern, category, invert) or find(...).
CallFilter ==
    /\ active = "idle"
    /\ \E fn \in {"grep", "find"}, category \in {"None", "f"}, invert \in BOOLEAN :
       \E src \in SeqsUpTo(FilterItems(category), MaxSrc),
          pattern \in (IF fn = "grep" THEN GrepPatterns ELSE FindPatterns) :
           /\ active' = fn
           /\ flt_args' = [pattern |-> pattern, category |-> category, invert |-> invert]
           /\ flt_src' = src
           /\ flt_pc' = "created"
           /\ UNCHANGED <<py, out, err, pulls, flt_i, catVars, colVars, fqVars, onceVars>>

\* The consumer asks for the next item.  grep's first pull starts the body
\* with `pattern = re.compile(pattern)`, which raises on a malformed pattern.
FilterPull ==
    /\ active \in {"grep", "find"}
    /\ flt_pc \in {"created", "yield"}
    /\ pulls' = pulls + 1
    /\ IF flt_pc = "created" /\ active = "grep" /\ ~compile(flt_args.pattern).ok
       THEN /\ err' = "re.error"
            /\ flt_pc' = "failed"
       ELSE /\ flt_pc' = "loop"
            /\ UNCHANGED err
    /\ UNCHANGED <<py, active, out, flt_args, flt_src, flt_i,
                   catVars, colVars, fqVars, onceVars>>

\* One iteration of `for item in source:`: the item is yielded if it passes.
FilterStep ==
    /\ active \in {"grep", "find"}
    /\ flt_pc = "loop"
    /\ IF flt_i = Len(flt_src)
       THEN /\ flt_pc' = "done"
            /\ UNCHANGED <<out, flt_i>>
       ELSE LET item == flt_src[flt_i + 1] IN
            /\ flt_i' = flt_i + 1
            /\ IF passes(active, flt_args, item)
               THEN /\ out' = Append(out, item)
                    /\ flt_pc' = "yield"
               ELSE UNCHANGED <<out, flt_pc>>
    /\ UNCHANGED <<py, active, err, pulls, flt_args, flt_src,
                   catVars, colVars, fqVars, onceVars>>

\* --------------------------------------------------------------------- Next

Next ==
    \/ CallCat
    \/ CatPull
    \/ CatFor
    \/ CatStream
    \/ CatOpen
    \/ CatFile
    \/ CatReadError
    \/ CatClose
    \/ CallCleverCat
    \/ CleverCatFor
    \/ CallColumns
    \/ ColumnsPull
    \/ CallCount
    \/ CallFrequency
    \/ FrequencyStep
    \/ TopFrequencyPull
    \/ PrintFrequencyPull
    \/ PrintFrequencyReport
    \/ CallOnce
    \/ OncePull
    \/ OnceStep
    \/ CallFilter
    \/ FilterPull
    \/ FilterStep

Spec == Init /\ [][Next]_vars

\* -------------------------------------------------------------- properties

Terminal == {"done", "failed", "closed"}

AllStreamLike == \A j \in 1..Len(cat_src) : is_filelike(cat_src[j])

\* C1 (as claimed): a stream-like origin is yielded line by line and is not
\* additionally opened as a path, so cat/gzcat over stream-like origins never
\* reaches open(), raises nothing and ends having yielded exactly the
\* concatenation of the origins' lines.
C1_StreamNotOpened ==
    (active \in {"cat", "gzcat"} /\ AllStreamLike) =>
        /\ cat_pc # "open"
        /\ opened = <<>>
        /\ err = "None"
        /\ (cat_pc = "done" =>
                out = Flatten([j \in 1..Len(cat_src) |-> cat_src[j].lines]))

\* What reading the file at `path` through the adapter its name selects yields.
FileLines(path) ==
    ReadOpened(IF endswith(path, <<".", "g", "z">>) THEN "gzcat" ELSE "cat", path).lines

Readable(path) ==
    /\ path \in DOMAIN FS
    /\ FS[path].gz = endswith(path, <<".", "g", "z">>)

\* C6 (as claimed): clever_cat hands each path to the chosen adapter as one
\* whole origin, so the only names ever opened are the input paths, and over
\* readable paths it ends without error having yielded the files' lines in
\* input order.
C6_WholePathOpened ==
    active = "clever_cat" =>
        /\ \A j \in 1..Len(opened) : opened[j].name \in Range(cc_src)
        /\ ((\A j \in 1..Len(cc_src) : Readable(cc_src[j])) =>
                /\ err = "None"
                /\ (cat_pc = "done" =>
                        out = Flatten([j \in 1..Len(cc_src) |-> FileLines(cc_src[j])])))

\* C7: cat/gzcat never holds more than one handle it opened, and holds none
\* once the generator has finished, failed or been closed by the consumer;
\* a handle is held only while the body is inside the with block.
C7_HandleReleased ==
    CatActive =>
        /\ Cardinality(handles) <= 1
        /\ (cat_pc \in Terminal => handles = {})
        /\ (handles # {} => cat_pc \in {"file", "y_file"})

\* C7 witness: the consumer abandoned the sequence while a file was open and
\* partly read.
C7_Witness ==
    /\ CatActive
    /\ cat_pc = "closed"
    /\ opened # <<>>
    /\ opened[Len(opened)].name \in DOMAIN FS
    /\ cat_k >= 1
    /\ cat_k < Len(FS[opened[Len(opened)].name].lines)
    /\ handles = {}

NoDiscard(names) == \A i \in 1..Len(names) : names[i] # "None"

\* Number of non-overlapping occurrences of sep in x, counted from the left.
RECURSIVE Occurrences(_, _)
Occurrences(x, sep) ==
    LET j == FindFrom(x, sep, 1) IN
    IF j = 0 THEN 0 ELSE 1 + Occurrences(SubSeq(x, j + Len(sep), Len(x)), sep)

\* C4 (as claimed): for the fixed-separator strategy, a template without
\* discards and a line with at least as many segments as names, columns then
\* uncolumns gives the line back unchanged and raises nothing.
C4_RoundTrip ==
    ( /\ active = "uncolumns"
      /\ col_args.splitter_type = "split"
      /\ col_args.sep # <<>>
      /\ NoDiscard(col_args.column_names)
      /\ \A j \in 1..Len(col_src) :
            Occurrences(col_src[j], col_args.sep) + 1 >= Len(col_args.column_names)
      /\ col_pc \in {"yield", "done", "failed"} )
    => /\ err = "None"
       /\ out = SubSeq(col_src, 1, col_i)

\* C5 (as claimed): the call columns(..., splitter_type=X) with an
\* unrecognized X has itself raised ValueError, before any pull and before
\* any element of source is consumed.
C5_EagerValueError ==
    (active = "columns" /\ col_args.splitter_type \notin {"split", "shlex"}) =>
        /\ err = "ValueError"
        /\ pulls = 0
        /\ col_i = 0

\* The pairs yielded are distinct keys of the table with their counts.
PairsOfTable(pairs) ==
    /\ \A j \in 1..Len(pairs) :
          pairs[j][1] \in DOMAIN counts /\ pairs[j][2] = counts[pairs[j][1]]
    /\ \A j, h \in 1..Len(pairs) : pairs[j][1] = pairs[h][1] => j = h

Min(a, b) == IF a < b THEN a ELSE b

\* C2 (as claimed): top_frequency(frequency(S), limit=K) ends without error
\* having yielded the first min(K, number of keys) pairs of the ranking by
\* descending count (all of them without a limit): the pairs are in
\* descending order of count (ascending when ascending is requested) and no
\* key left out outranks a yielded one.
C2_TopFrequency ==
    (active = "top_frequency" /\ fq_pc \in {"done", "failed"}) =>
        /\ err = "None"
        /\ PairsOfTable(out)
        /\ Len(out) = IF fq_args.limit = {} THEN Cardinality(DOMAIN counts)
                      ELSE Min(CHOOSE n \in fq_args.limit : TRUE, Cardinality(DOMAIN counts))
        /\ \A j \in 1..(Len(out) - 1) :
              IF fq_args.ascending THEN out[j][2] <= out[j + 1][2]
                                   ELSE out[j][2] >= out[j + 1][2]
        /\ \A k \in DOMAIN counts : \A j \in 1..Len(out) :
              (\A h \in 1..Len(out) : out[h][1] # k) =>
                  IF fq_args.ascending THEN counts[k] >= out[j][2]
                                       ELSE counts[k] <= out[j][2]

\* C3 (as claimed): print_frequency ends without error; over an empty input
\* it has emitted exactly the header at width 5 and the rule, and over any
\* input the header and rule at width max(5, digits of the highest count)
\* followed by one line per ranked entry.
C3_PrintFrequency ==
    (active = "print_frequency" /\ fq_pc \in {"done", "failed"}) =>
        /\ err = "None"
        /\ (fq_src = <<>> => out = <<header(5), rule(5)>>)
        /\ Len(out) >= 2
        /\ \E w \in 5..(5 + MaxFreqSrc) :
              /\ \A k \in DOMAIN counts : digits(counts[k]) <= w
              /\ (w > 5 => \E k \in DOMAIN counts : digits(counts[k]) = w)
              /\ out[1] = header(w)
              /\ out[2] = rule(w)
        /\ Len(out) = 2 + (IF fq_args.limit = {} THEN Cardinality(DOMAIN counts)
                           ELSE Min(CHOOSE n \in fq_args.limit : TRUE, Cardinality(DOMAIN counts)))

RECURSIVE SumCounts(_, _)
SumCounts(cnt, keys) ==
    IF keys = {} THEN 0
    ELSE LET k == CHOOSE k \in keys : TRUE IN cnt[k] + SumCounts(cnt, keys \ {k})

FrequencyStarted ==
    /\ active \in {"frequency", "top_frequency", "print_frequency"}
    /\ ~(active = "print_frequency" /\ fq_pc = "created")

FrequencyReturned == FrequencyStarted /\ fq_pc # "tally"

\* After every consumed prefix the table's keys are the distinct items seen
\* and each count is the number of equal items seen; once frequency has
\* returned the whole source was consumed and the counts sum to count(S).
C8_Table ==
    FrequencyStarted =>
        /\ DOMAIN counts = {fq_src[j] : j \in 1..fq_i}
        /\ \A k \in DOMAIN counts :
              counts[k] = Cardinality({j \in 1..fq_i : fq_src[j] = k})
        /\ (FrequencyReturned =>
              /\ fq_i = Len(fq_src)
              /\ SumCounts(counts, DOMAIN counts) = count(fq_src))

\* No step removes a key or lowers a count.
C8_Monotone ==
    \A k \in DOMAIN counts : k \in DOMAIN counts' /\ counts'[k] >= counts[k]

\* C8: frequency(S) maps exactly the distinct items of S to their numbers of
\* occurrences, the counts sum to count(S), the same holds of every consumed
\* prefix during accumulation, and no count ever decreases.
C8_Frequency == [](C8_Table) /\ [][C8_Monotone]_vars

\* C8 witness: frequency returned a table with several keys, one of them
\* counted more than once.
C8_Witness ==
    /\ active = "frequency"
    /\ fq_pc = "returned"
    /\ Cardinality(DOMAIN counts) >= 2
    /\ \E k \in DOMAIN counts : counts[k] >= 2

\* Position of the first callback that returns a result for item (0 if none).
FirstHit(item, cbs) ==
    LET H == {j \in 1..Len(cbs) : apply(cbs[j], item) # "None"}
    IN  IF H = {} THEN 0 ELSE CHOOSE j \in H : \A h \in H : j <= h

\* The invocations due for one item: callbacks 1..first hit, or all of them.
DueCalls(item, cbs) ==
    [j \in 1..(IF FirstHit(item, cbs) = 0 THEN Len(cbs) ELSE FirstHit(item, cbs))
        |-> <<j, cbs[j], item>>]

\* The results due for a sequence of items: the first hit's result, if any.
DueResults(items, cbs) ==
    Flatten([n \in 1..Len(items) |->
        IF FirstHit(items[n], cbs) = 0 THEN <<>>
        ELSE <<apply(cbs[FirstHit(items[n], cbs)], items[n])>>])

\* C9: for each item once invokes the callbacks in list order up to the first
\* that returns a result, yields that result and invokes no later callback;
\* an item for which every callback returns None yields nothing.  So with
\* [A, B] and A always None the output is that of B alone, and with A always
\* returning a value only A is ever invoked.
C9_Once ==
    active = "once" =>
        LET done == SubSeq(once_src, 1, once_i) IN
        /\ calls = Flatten([n \in 1..once_i |-> DueCalls(once_src[n], once_cbs)])
                   \o [j \in 1..once_j |-> <<j, once_cbs[j], once_src[once_i + 1]>>]
        /\ \A j \in 1..once_j : apply(once_cbs[j], once_src[once_i + 1]) = "None"
        /\ out = DueResults(done, once_cbs)
        /\ (Len(once_cbs) = 2 /\ \A x \in OnceItems : apply(once_cbs[1], x) = "None")
              => out = DueResults(done, <<once_cbs[2]>>)
        /\ (Len(once_cbs) = 2 /\ \A x \in OnceItems : apply(once_cbs[1], x) # "None")
              => \A n \in 1..Len(calls) : calls[n][1] = 1

\* C9 witness: once ended over two callbacks having skipped one item and
\* yielded another from the second callback.
C9_Witness ==
    /\ active = "once"
    /\ once_pc = "done"
    /\ Len(once_cbs) = 2
    /\ \E n \in 1..Len(once_src) : FirstHit(once_src[n], once_cbs) = 0
    /\ \E n \in 1..Len(once_src) : FirstHit(once_src[n], once_cbs) = 2
    /\ Len(out) = 1

\* The predicate of the claim: a search-anywhere match for grep, substring
\* containment for find, on the item or on its named field.
Holds(fn, args, item) ==
    LET v == tested(item, args.category) IN
    IF fn = "grep" THEN search(compile(args.pattern).atoms, v)
    ELSE \E k \in 1..(Len(v) - Len(args.pattern) + 1) :
            SubSeq(v, k, k + Len(args.pattern) - 1) = args.pattern

\* The items for which the predicate is `want`, in their original order.
RECURSIVE Kept(_, _, _, _)
Kept(fn, args, items, want) ==
    IF items = <<>> THEN <<>>
    ELSE (IF Holds(fn, args, Head(items)) = want THEN <<Head(items)>> ELSE <<>>)
         \o Kept(fn, args, Tail(items), want)

\* C10: grep and find yield exactly the consumed items for which the
\* predicate holds, in their original order, and with invert exactly those
\* for which it does not hold (the complement within S).
C10_Filter ==
    (active \in {"grep", "find"} /\ flt_pc # "failed") =>
        out = Kept(active, flt_args, SubSeq(flt_src, 1, flt_i), ~flt_args.invert)

\* C10 witness: an inverted grep on a named field ended having kept some
\* items and dropped others.
C10_Witness ==
    /\ active = "grep"
    /\ flt_args.invert
    /\ flt_args.category = "f"
    /\ flt_pc = "done"
    /\ Len(out) >= 1
    /\ Len(out) < Len(flt_src)

====
